---------------------------- MODULE Spec2Model ----------------------------
(***************************************************************************)
(* Model of scripts/insert_tableau_csv.py: a one-shot tool that registers  *)
(* a CSV file as a textscan data source of a Tableau workbook (an XML      *)
(* document) and links it to every worksheet.                              *)
(*                                                                         *)
(* Strings are sequences of one-character strings, so that split, join,    *)
(* upper/lower, strip and the regular expressions are computed as the      *)
(* code computes them.  None and the empty string are both the empty       *)
(* sequence: the code only ever tests them for truthiness.                 *)
(* The os.path functions are those of posixpath (os.sep = "/"), the        *)
(* platform on which a path can start with /mnt/ after normpath.           *)
(*                                                                         *)
(* The model follows the statements of the functions.  The module          *)
(* docstring of the script (line 20) holds the text C:\Users in a string   *)
(* that is not raw, which CPython 3 rejects as a truncated \U escape; the  *)
(* model describes the script with that line of documentation repaired.    *)
(***************************************************************************)
EXTENDS Integers, Sequences, FiniteSets, TLC

VARIABLES
    wbFile,      \* the workbook file on disk
    backupFile,  \* the <base>.backup<ext> sibling of the workbook
    pc,          \* position of main(): "idle", a step of main_steps, or an end
    args,        \* parsed command line of the current run
    tree,        \* the ElementTree held in memory by the current run
    ret,         \* ds_name, ds_caption, attached of the current run
    err,         \* which fatal error ended the run, "" if none
    exit_code,   \* process exit status of the last ended run
    uuid_ctr,    \* number of runs started; run n draws the n-th uuid4()
    start,       \* history: the two files as they were when the run started
    prev,        \* history: arguments and outcome of the previous run
    orig,        \* history: the two files before the first run
    fin,         \* input of the pure function under check
    fout,        \* its result
    fpc          \* "in" before the function was applied, "out" after

vars == <<wbFile, backupFile, pc, args, tree, ret, err, exit_code, uuid_ctr,
          start, prev, orig, fin, fout, fpc>>
mainVars == <<wbFile, backupFile, pc, args, tree, ret, err, exit_code,
              uuid_ctr, start, prev, orig>>
fnVars == <<fin, fout, fpc>>

---------------------------------------------------------------------------
(* Bounds of the model *)

MaxRuns == 2
MaxSegs == 4
MaxVals == 2
MaxHdr == 2
MaxWidth == 2
MaxRows == 2
MaxWs == 2
MaxRefs == 2

---------------------------------------------------------------------------
(* str methods *)

RECURSIVE SplitAcc(_, _, _)
SplitAcc(s, sep, cur) ==
    IF s = <<>> THEN <<cur>>
    ELSE IF Head(s) = sep THEN <<cur>> \o SplitAcc(Tail(s), sep, <<>>)
    ELSE SplitAcc(Tail(s), sep, Append(cur, Head(s)))

\* s.split(sep) for a one-character sep
str_split(s, sep) == SplitAcc(s, sep, <<>>)

RECURSIVE str_join(_, _)
\* sep.join(parts)
str_join(parts, sep) ==
    IF parts = <<>> THEN <<>>
    ELSE IF Len(parts) = 1 THEN parts[1]
    ELSE parts[1] \o <<sep>> \o str_join(Tail(parts), sep)

\* s.startswith(p)
startswith(s, p) == Len(s) >= Len(p) /\ SubSeq(s, 1, Len(p)) = p

RECURSIVE str_replace(_, _, _)
\* s.replace(a, b) for one-character a and b
str_replace(s, a, b) ==
    IF s = <<>> THEN <<>>
    ELSE <<IF Head(s) = a THEN b ELSE Head(s)>> \o str_replace(Tail(s), a, b)

UpperChar(c) ==
    CASE c = "c" -> "C" [] c = "d" -> "D" [] c = "x" -> "X" [] c = "m" -> "M"
      [] c = "n" -> "N" [] c = "t" -> "T" [] c = "s" -> "S" [] c = "e" -> "E"
      [] c = "r" -> "R" [] c = "v" -> "V" [] c = "a" -> "A" [] c = "b" -> "B"
      [] c = "w" -> "W" [] OTHER -> c

LowerChar(c) ==
    CASE c = "C" -> "c" [] c = "D" -> "d" [] c = "X" -> "x" [] c = "M" -> "m"
      [] c = "N" -> "n" [] c = "T" -> "t" [] c = "S" -> "s" [] c = "E" -> "e"
      [] c = "R" -> "r" [] c = "V" -> "v" [] c = "A" -> "a" [] c = "B" -> "b"
      [] c = "W" -> "w" [] c = "U" -> "u" [] OTHER -> c

RECURSIVE str_upper(_)
str_upper(s) ==
    IF s = <<>> THEN <<>> ELSE <<UpperChar(Head(s))>> \o str_upper(Tail(s))

RECURSIVE str_lower(_)
str_lower(s) ==
    IF s = <<>> THEN <<>> ELSE <<LowerChar(Head(s))>> \o str_lower(Tail(s))

IsSpace(c) == c = " "

RECURSIVE lstrip(_)
lstrip(s) == IF s # <<>> /\ IsSpace(Head(s)) THEN lstrip(Tail(s)) ELSE s

RECURSIVE rstrip(_)
rstrip(s) ==
    IF s # <<>> /\ IsSpace(s[Len(s)]) THEN rstrip(SubSeq(s, 1, Len(s) - 1))
    ELSE s

\* s.strip()
str_strip(s) == rstrip(lstrip(s))

\* s.rfind(c): 0-based index of the last c, -1 if none
RECURSIVE str_rfind(_, _)
str_rfind(s, c) ==
    IF s = <<>> THEN -1
    ELSE IF s[Len(s)] = c THEN Len(s) - 1
    ELSE str_rfind(SubSeq(s, 1, Len(s) - 1), c)

\* s[i:] and s[:i] for 0 <= i
SliceFrom(s, i) == SubSeq(s, i + 1, Len(s))
SliceTo(s, i) == SubSeq(s, 1, IF i < Len(s) THEN i ELSE Len(s))

---------------------------------------------------------------------------
(* os and os.path on a POSIX host *)

os_sep == "/"

\* os.getcwd()
getcwd == <<"/", "w">>

RECURSIVE NormComps(_, _, _)
\* the loop of posixpath.normpath over the components of the path
NormComps(comps, new_comps, initial_slashes) ==
    IF comps = <<>> THEN new_comps
    ELSE LET comp == Head(comps) IN
         IF comp = <<>> \/ comp = <<".">>
         THEN NormComps(Tail(comps), new_comps, initial_slashes)
         ELSE IF \/ comp # <<".", ".">>
                 \/ (initial_slashes = 0 /\ new_comps = <<>>)
                 \/ (new_comps # <<>> /\ new_comps[Len(new_comps)] = <<".", ".">>)
         THEN NormComps(Tail(comps), Append(new_comps, comp), initial_slashes)
         ELSE IF new_comps # <<>>
         THEN NormComps(Tail(comps), SubSeq(new_comps, 1, Len(new_comps) - 1),
                        initial_slashes)
         ELSE NormComps(Tail(comps), new_comps, initial_slashes)

\* os.path.normpath(path)
normpath(path) ==
    IF path = <<>> THEN <<".">>
    ELSE LET initial_slashes ==
                 IF ~startswith(path, <<"/">>) THEN 0
                 ELSE IF startswith(path, <<"/", "/">>)
                         /\ ~startswith(path, <<"/", "/", "/">>) THEN 2
                 ELSE 1
             comps == NormComps(str_split(path, "/"), <<>>, initial_slashes)
             joined == str_join(comps, "/")
             res == [i \in 1..initial_slashes |-> "/"] \o joined
         IN IF res = <<>> THEN <<".">> ELSE res

\* os.path.isabs(path)
isabs(path) == startswith(path, <<os_sep>>)

\* os.path.join(a, b)
path_join(a, b) ==
    IF startswith(b, <<os_sep>>) THEN b
    ELSE IF a = <<>> \/ a[Len(a)] = os_sep THEN a \o b
    ELSE a \o <<os_sep>> \o b

RECURSIVE path_join_all(_)
\* os.path.join(*parts)
path_join_all(parts) ==
    IF Len(parts) = 1 THEN parts[1]
    ELSE path_join_all(<<path_join(parts[1], parts[2])>> \o SubSeq(parts, 3, Len(parts)))

\* os.path.abspath(path)
abspath(path) ==
    IF isabs(path) THEN normpath(path) ELSE normpath(path_join(getcwd, path))

RECURSIVE NonEmpty(_)
NonEmpty(parts) ==
    IF parts = <<>> THEN <<>>
    ELSE (IF Head(parts) = <<>> THEN <<>> ELSE <<Head(parts)>>) \o NonEmpty(Tail(parts))

RECURSIVE CommonLen(_, _)
\* len(os.path.commonprefix([a, b])) for two lists of components
CommonLen(a, b) ==
    IF a = <<>> \/ b = <<>> \/ Head(a) # Head(b) THEN 0
    ELSE 1 + CommonLen(Tail(a), Tail(b))

\* rel_list of os.path.relpath and its join
rel_join(start_list, path_list, i) ==
    LET rel_list == [k \in 1..(Len(start_list) - i) |-> <<".", ".">>]
                       \o SubSeq(path_list, i + 1, Len(path_list))
    IN IF rel_list = <<>> THEN <<".">> ELSE path_join_all(rel_list)

rel_from_lists(start_list, path_list) ==
    rel_join(start_list, path_list, CommonLen(start_list, path_list))

\* os.path.relpath(path, start)
relpath(path, start_dir) ==
    rel_from_lists(NonEmpty(str_split(abspath(start_dir), os_sep)),
                   NonEmpty(str_split(abspath(path), os_sep)))

RECURSIVE RStripSep(_)
RStripSep(s) ==
    IF s # <<>> /\ s[Len(s)] = os_sep THEN RStripSep(SubSeq(s, 1, Len(s) - 1))
    ELSE s

\* the head of os.path.split with its trailing slashes stripped
split_head(head) ==
    IF head # <<>> /\ RStripSep(head) # <<>> THEN RStripSep(head) ELSE head

split_at(p, i) == <<split_head(SliceTo(p, i)), SliceFrom(p, i)>>

\* os.path.split(p): <<head, tail>>
path_split(p) == split_at(p, str_rfind(p, os_sep) + 1)

RECURSIVE FirstNonDot(_, _)
\* index (0-based) of the first character at or after i that is not a dot
FirstNonDot(p, i) ==
    IF i < Len(p) /\ p[i + 1] = "." THEN FirstNonDot(p, i + 1) ELSE i

splitext_at(p, sepIndex, dotIndex) ==
    IF dotIndex > sepIndex /\ FirstNonDot(p, sepIndex + 1) < dotIndex
    THEN <<SliceTo(p, dotIndex), SliceFrom(p, dotIndex)>>
    ELSE <<p, <<>>>>

\* os.path.splitext(p): <<root, ext>>
splitext(p) == splitext_at(p, str_rfind(p, os_sep), str_rfind(p, "."))

---------------------------------------------------------------------------
(* Path normalizer *)

\* the branch for --windows-root and the default
rooted_path(norm, rel, windows_root) ==
    IF windows_root # <<>> /\ ~startswith(rel, <<".", ".">>)
    THEN str_replace(path_join(windows_root, rel), "/", os_sep)
    ELSE str_replace(norm, "/", os_sep)

\* the branch for the WSL mount form, parts being norm.split(os.sep)
mounted_path(norm, parts, windows_root) ==
    IF startswith(norm, <<"/", "m", "n", "t", "/">>) /\ Len(parts) > 3
    THEN str_upper(parts[3]) \o <<":", os_sep>>
             \o path_join_all(SubSeq(parts, 4, Len(parts)))
    ELSE rooted_path(norm, relpath(norm, getcwd), windows_root)

windows_path_of(norm, windows_root) ==
    mounted_path(norm, str_split(norm, os_sep), windows_root)

\* if not os.path.isabs(norm): norm = os.path.abspath(norm)
make_absolute(norm) == IF ~isabs(norm) THEN abspath(norm) ELSE norm

to_windows_path(path, windows_root) ==
    windows_path_of(make_absolute(normpath(path)), windows_root)

normalize_directory(sp) == <<str_replace(sp[1], "/", os_sep), sp[2]>>

split_dir_filename_windows(win_path) == normalize_directory(path_split(win_path))

---------------------------------------------------------------------------
(* CSV sampler *)

max_rows == 500

Digits == {"0", "1", "2", "3", "4", "5", "6", "7", "8", "9"}

\* the optional sign [+-]? at the head of s: what follows it
SkipSign(s) == IF s # <<>> /\ Head(s) \in {"+", "-"} THEN Tail(s) ELSE s

RECURSIVE SkipDigits(_)
\* \d* at the head of s: what follows it
SkipDigits(s) ==
    IF s # <<>> /\ Head(s) \in Digits THEN SkipDigits(Tail(s)) ELSE s

\* re.fullmatch(r"[+-]?\d+", s)
is_int(s) ==
    LET r == SkipSign(s) IN r # <<>> /\ SkipDigits(r) = <<>>

\* re.fullmatch(r"[+-]?(?:\d+\.\d*|\d*\.\d+|\d+)(?:[eE][+-]?\d+)?", s)
is_real(s) ==
    LET r0 == SkipSign(s)
        r1 == SkipDigits(r0)
        n1 == Len(r0) - Len(r1)
        hasDot == r1 # <<>> /\ Head(r1) = "."
        r2 == IF hasDot THEN Tail(r1) ELSE r1
        r3 == IF hasDot THEN SkipDigits(r2) ELSE r2
        n2 == Len(r2) - Len(r3)
        mantissa == IF hasDot THEN n1 + n2 >= 1 ELSE n1 >= 1
        exponent ==
            \/ r3 = <<>>
            \/ /\ Head(r3) \in {"e", "E"}
               /\ LET r4 == SkipSign(Tail(r3))
                  IN r4 # <<>> /\ SkipDigits(r4) = <<>>
    IN mantissa /\ exponent

\* [s for s in samples if s not in ("", None)]
only_non_empty(samples) == SelectSeq(samples, LAMBDA s : s # <<>>)

AllOf(seq, P(_)) == \A i \in 1..Len(seq) : P(seq[i])

\* faulty variant: the real pattern is tried before the integer pattern
guess_type_realfirst(samples) ==
    LET kept == only_non_empty(samples)
    IN IF kept = <<>> THEN "string"
       ELSE IF AllOf(kept, is_real) THEN "real"
       ELSE IF AllOf(kept, is_int) THEN "integer"
       ELSE "string"

guess_type(samples) ==
    LET kept == only_non_empty(samples)
    IN IF kept = <<>> THEN "string"
       ELSE IF AllOf(kept, is_int) THEN "integer"
       ELSE IF AllOf(kept, is_real) THEN "real"
       ELSE "string"

DigitChar(i) ==
    CASE i = 0 -> "0" [] i = 1 -> "1" [] i = 2 -> "2" [] i = 3 -> "3"
      [] i = 4 -> "4" [] i = 5 -> "5" [] i = 6 -> "6" [] i = 7 -> "7"
      [] i = 8 -> "8" [] OTHER -> "9"

\* [h if h else f"col_{i}" for i, h in enumerate(headers)]
default_headers(headers) ==
    [i \in 1..Len(headers) |->
        IF headers[i] # <<>> THEN headers[i]
        ELSE <<"c", "o", "l", "_", DigitChar(i - 1)>>]

\* faulty variant: the row is padded but the slice [: len(headers)] is lost
pad_row_untruncated(row, n) == row \o [k \in 1..n |-> <<>>]

\* (row + [""] * len(headers))[: len(headers)]
pad_row(row, n) == SubSeq(row \o [k \in 1..n |-> <<>>], 1, n)

\* samples.append(row) ahead of what the rest of the loop does
cons_row(row, rest) ==
    [raised |-> rest.raised, samples |-> <<row>> \o rest.samples]

RECURSIVE read_rows(_, _, _, _, _)
\* the loop over range(max_rows) of one attempt: rows is what the reader
\* still holds, k the number of the row being read, errAt the row at which
\* the reader raises (0: never)
read_rows(rows, k, limit, errAt, nhdr) ==
    IF k > limit \/ rows = <<>> THEN [raised |-> FALSE, samples |-> <<>>]
    ELSE IF k = errAt THEN [raised |-> TRUE, samples |-> <<>>]
    ELSE cons_row(pad_row(Head(rows), nhdr),
                  read_rows(Tail(rows), k + 1, limit, errAt, nhdr))

attempt_result(hs, rr, samples) ==
    [raised |-> rr.raised, headers |-> hs, samples |-> samples \o rr.samples]

attempt_rows(csv, limit, hs, samples) ==
    attempt_result(hs, read_rows(Tail(csv.lines), 1, limit, csv.errAt, Len(hs)),
                   samples)

\* the body of the try block for one encoding
read_attempt(csv, limit, headers, samples) ==
    IF ~csv.openable \/ csv.lines = <<>>
    THEN [raised |-> TRUE, headers |-> headers, samples |-> samples]
    ELSE attempt_rows(csv, limit, default_headers(Head(csv.lines)), samples)

\* except Exception: continue, after attempt a
next_encoding(csv, limit, a) ==
    IF a.raised THEN read_attempt(csv, limit, a.headers, a.samples) ELSE a

\* for encoding in ("utf-8", "utf-8-sig", "latin-1"): try ... break
read_encodings(csv, limit) ==
    next_encoding(csv, limit,
        next_encoding(csv, limit, read_attempt(csv, limit, <<>>, <<>>)))

\* faulty variant: the test for an empty header list is lost
headers_unchecked(headers) == TRUE

\* if not headers: raise RuntimeError(...)
headers_ok(headers) == headers # <<>>

RECURSIVE column_of(_, _)
\* the values the rows append to col_samples[i]
column_of(samples, i) ==
    IF samples = <<>> THEN <<>>
    ELSE (IF i <= Len(Head(samples)) THEN <<str_strip(Head(samples)[i])>>
          ELSE <<>>) \o column_of(Tail(samples), i)

\* types = [guess_type(col) for col in col_samples]
typed_columns(headers, samples, cols, index_error) ==
    [ok |-> headers_ok(headers) /\ ~index_error,
     error |-> IF ~headers_ok(headers) THEN "headers"
               ELSE IF index_error THEN "index" ELSE "",
     headers |-> headers,
     samples |-> samples,
     col_samples |-> cols,
     types |-> [i \in 1..Len(headers) |-> guess_type(cols[i])]]

\* the transposition of the samples into one list per header
transpose_samples(headers, samples) ==
    typed_columns(headers, samples,
                  [i \in 1..Len(headers) |-> column_of(samples, i)],
                  \E k \in 1..Len(samples) : Len(samples[k]) > Len(headers))

sampled_columns(rd) == transpose_samples(rd.headers, rd.samples)

sample_csv_columns(csv, limit) == sampled_columns(read_encodings(csv, limit))

---------------------------------------------------------------------------
(* The workbook document.                                                  *)
(* A document is [top, ds, ws]: the tags of the root's children, the       *)
(* <datasource> children of <datasources>, and the <worksheet> children of *)
(* <worksheets>.  A data source is a record of the attributes the tool     *)
(* reads or writes; an absent attribute is the empty string.  A worksheet  *)
(* is [view, cont, refs]: whether table/view exists, whether the view has  *)
(* a <datasources> child, and that child's <datasource> references.        *)

NoDoc == [top |-> <<>>, ds |-> <<>>, ws |-> <<>>]

table_attr(base, ext) ==
    <<"[">> \o base \o <<"#">>
        \o (IF startswith(ext, <<".">>) THEN str_lower(Tail(ext))
            ELSE str_lower(ext))
        \o <<"]">>

table_attr_of(se) == table_attr(se[1], se[2])

\* f"[{base}#{ext_no_dot}]"
make_table_attr(filename) == table_attr_of(splitext(filename))

RECURSIVE IndexOf(_, _)
\* list.index(x), 1-based; 0 if absent
IndexOf(seq, x) ==
    IF seq = <<>> THEN 0
    ELSE IF Head(seq) = x THEN 1
    ELSE LET r == IndexOf(Tail(seq), x) IN IF r = 0 THEN 0 ELSE r + 1

InsertAt(seq, i, x) == SubSeq(seq, 1, i) \o <<x>> \o SubSeq(seq, i + 1, Len(seq))

insert_datasources(root, idx) ==
    [root EXCEPT !.top = InsertAt(root.top, idx, "datasources")]

ensure_datasources_node(root) ==
    IF IndexOf(root.top, "datasources") # 0 THEN root
    ELSE insert_datasources(root, IndexOf(root.top, "preferences"))

\* f"textscan.{uuid.uuid4().hex[:30]}", the n-th value drawn
uuid_name(n) == <<"t", "s", ".", DigitChar(n)>>

\* faulty variant: the stored filename is compared with a value it never equals
never_same_file(d, filename) == FALSE

\* the test of the loop over ds_container.findall("datasource")
same_file(d, filename) ==
    /\ d.conn
    /\ d.class = "textscan"
    /\ d.filename # <<>>
    /\ d.filename = filename

RECURSIVE FirstMatch(_, _, _)
\* index of the first data source the loop updates, 0 if none
FirstMatch(ds, filename, i) ==
    IF i > Len(ds) THEN 0
    ELSE IF same_file(ds[i], filename) THEN i
    ELSE FirstMatch(ds, filename, i + 1)

\* the body of the loop for the matching data source
update_existing(d, directory, filename, table, ds_caption, ds_name) ==
    [d EXCEPT
        !.directory = directory,
        !.filename = filename,
        !.relname = IF d.rel THEN filename ELSE @,
        !.table = IF d.rel THEN table ELSE @,
        !.caption = IF ds_caption # <<>> THEN ds_caption ELSE @,
        !.name = IF d.name = <<>> THEN ds_name ELSE @]

\* the <datasource> subtree built for a CSV that is not in the workbook yet
new_datasource(directory, filename, table, ds_caption, ds_name, headers, types) ==
    [name |-> ds_name, caption |-> ds_caption, inline |-> TRUE,
     conn |-> TRUE, class |-> "textscan",
     directory |-> directory, filename |-> filename,
     rel |-> TRUE, relname |-> filename, table |-> table,
     columns |-> [i \in 1..(IF Len(headers) < Len(types) THEN Len(headers)
                            ELSE Len(types)) |->
                    [datatype |-> types[i], name |-> headers[i],
                     ordinal |-> i - 1]],
     aliases |-> TRUE]

\* the return inside the loop
updated_result(r1, m, upd) ==
    [ok |-> TRUE, error |-> "", root |-> [r1 EXCEPT !.ds[m] = upd],
     ds_name |-> upd.name, ds_caption |-> upd.caption]

\* the code after the loop: sample the CSV, build and append the subtree
appended_result(r1, directory, filename, ds_caption, ds_name, sampled) ==
    IF ~sampled.ok
    THEN [ok |-> FALSE, error |-> sampled.error, root |-> r1,
          ds_name |-> <<>>, ds_caption |-> <<>>]
    ELSE [ok |-> TRUE, error |-> "",
          root |-> [r1 EXCEPT !.ds = Append(@,
                       new_datasource(directory, filename,
                                      make_table_attr(filename), ds_caption,
                                      ds_name, sampled.headers, sampled.types))],
          ds_name |-> ds_name,
          ds_caption |-> ds_caption]

update_or_append(r1, m, directory, filename, ds_caption, ds_name, csv) ==
    IF m # 0
    THEN updated_result(r1, m,
             update_existing(r1.ds[m], directory, filename,
                             make_table_attr(filename), ds_caption, ds_name))
    ELSE appended_result(r1, directory, filename, ds_caption, ds_name,
                         sample_csv_columns(csv, max_rows))

add_named(r1, directory, filename, caption, ds_name, csv) ==
    update_or_append(r1, FirstMatch(r1.ds, filename, 1), directory, filename,
                     IF caption # <<>> THEN caption ELSE filename, ds_name, csv)

add_at(r1, df, caption, ds_name, csv) ==
    add_named(r1, df[1], df[2], caption, ds_name, csv)

add_textscan_datasource(root, csv_path, csv, caption, windows_root, uuid) ==
    add_at(ensure_datasources_node(root),
           split_dir_filename_windows(to_windows_path(csv_path, windows_root)),
           caption, uuid_name(uuid), csv)

\* faulty variant: the references are compared with a value they never equal
never_attached(refs, ds_name) == FALSE

\* any(d.get("name") == ds_name for d in datasources.findall("datasource"))
already_attached(refs, ds_name) ==
    \E i \in 1..Len(refs) : refs[i].name = ds_name

\* the body of the loop for one worksheet: <<worksheet after, links added>>
attach_one(w, ds_name, ds_caption) ==
    IF ~w.view THEN <<w, 0>>
    ELSE IF already_attached(IF w.cont THEN w.refs ELSE <<>>, ds_name)
    THEN <<[w EXCEPT !.cont = TRUE], 0>>
    ELSE <<[w EXCEPT !.cont = TRUE,
                     !.refs = Append(IF w.cont THEN w.refs ELSE <<>>,
                                     [name |-> ds_name, caption |-> ds_caption])],
           1>>

RECURSIVE SumSeq(_)
SumSeq(s) == IF s = <<>> THEN 0 ELSE Head(s) + SumSeq(Tail(s))

\* faulty variant: count is incremented for every worksheet with a view
attach_counting_views(root, res) ==
    [root |-> [root EXCEPT !.ws = [i \in 1..Len(res) |-> res[i][1]]],
     count |-> SumSeq([i \in 1..Len(res) |-> IF root.ws[i].view THEN 1 ELSE 0])]

\* the worksheets after the loop and the value of count
attach_result(root, res) ==
    [root |-> [root EXCEPT !.ws = [i \in 1..Len(res) |-> res[i][1]]],
     count |-> SumSeq([i \in 1..Len(res) |-> res[i][2]])]

attach_datasource_to_all_worksheets(root, ds_name, ds_caption) ==
    attach_result(root, [i \in 1..Len(root.ws) |->
                            attach_one(root.ws[i], ds_name, ds_caption)])

---------------------------------------------------------------------------
(* Files.  A file is [kind, fmt, doc]: kind "missing", "bad" (exists but   *)
(* is not well-formed XML) or "xml"; fmt tells the bytes of a hand-saved   *)
(* workbook ("orig") from those ElementTree serializes ("et").             *)

MissingFile == [kind |-> "missing", fmt |-> "", doc |-> NoDoc]
BadFile == [kind |-> "bad", fmt |-> "orig", doc |-> NoDoc]
XmlFile(doc) == [kind |-> "xml", fmt |-> "orig", doc |-> doc]
\* a backup left behind by an earlier copy of the workbook
StaleFile == [kind |-> "xml", fmt |-> "stale", doc |-> NoDoc]

\* faulty variant: the copy is made whether or not the backup exists
backup_overwrite(wb, bk) == wb

\* the content of the backup path after backup_file(path)
backup_file(wb, bk) == IF bk.kind = "missing" THEN wb ELSE bk

\* ET.parse(wb_path)
et_parse(file) == [ok |-> file.kind = "xml", root |-> file.doc]

\* tree.write(wb_path, encoding="utf-8", xml_declaration=True)
et_write(root) == [kind |-> "xml", fmt |-> "et", doc |-> root]

---------------------------------------------------------------------------
(* The environment of the runs: CSV files on disk, command lines, and the  *)
(* workbooks the tool may be pointed at.                                   *)

S_a_csv == <<"a", ".", "c", "s", "v">>
S_B_CSV == <<"B", ".", "C", "S", "V">>
S_E1 == <<"E", "1">>
S_E2 == <<"E", "2">>
S_Cap == <<"C", "a", "p">>
S_Root == <<"C", ":", "\\", "r">>
S_OldDir == <<"D", ":", "\\", "o", "l", "d">>

P_rel_a == S_a_csv
P_abs_a == <<"/", "w", "/">> \o S_a_csv
P_x_a == <<"/", "w", "/", "x", "/">> \o S_a_csv
P_mnt_B == <<"/", "m", "n", "t", "/", "c", "/">> \o S_B_CSV
P_missing == <<"/", "w", "/", "m", ".", "c", "s", "v">>

NoCsv == [exists |-> FALSE, openable |-> FALSE, lines |-> <<>>, errAt |-> 0]

csv_lookup(p) ==
    CASE p = P_abs_a ->
           [exists |-> TRUE, openable |-> TRUE, errAt |-> 0,
            lines |-> << <<<<"i", "d">>, <<"v">>, <<>>>>,
                         <<<<"1">>, <<"2", ".", "5">>, <<"a">>>>,
                         <<<<"2">>, <<"3">>>> >>]
      [] p = P_x_a ->
           [exists |-> TRUE, openable |-> TRUE, errAt |-> 0, lines |-> <<>>]
      [] p = P_mnt_B ->
           [exists |-> TRUE, openable |-> TRUE, errAt |-> 0,
            lines |-> << <<<<"k">>>> >>]
      [] OTHER -> NoCsv

\* what open(csv_path) and csv.reader find at a path
csv_at(path) == csv_lookup(abspath(path))

Arg(csv, caption, windows_root) ==
    [csv |-> csv, caption |-> caption, windows_root |-> windows_root]

NoArgs == Arg(<<>>, <<>>, <<>>)

ArgSet ==
    { Arg(P_rel_a, <<>>, <<>>), Arg(P_rel_a, S_Cap, S_Root),
      Arg(P_x_a, <<>>, <<>>), Arg(P_x_a, S_Cap, <<>>),
      Arg(P_mnt_B, <<>>, <<>>), Arg(P_mnt_B, <<>>, S_Root),
      Arg(P_missing, <<>>, <<>>) }

\* a <datasource> element already in the workbook
OldDs(name, class, filename, rel) ==
    [name |-> name, caption |-> name, inline |-> TRUE,
     conn |-> TRUE, class |-> class,
     directory |-> S_OldDir, filename |-> filename,
     rel |-> rel, relname |-> IF rel THEN filename ELSE <<>>,
     table |-> IF rel THEN make_table_attr(filename) ELSE <<>>,
     columns |-> <<>>, aliases |-> FALSE]

\* a <datasource> element without a <connection> child (e.g. Parameters)
BareDs(name) ==
    [name |-> name, caption |-> <<>>, inline |-> FALSE,
     conn |-> FALSE, class |-> "", directory |-> <<>>, filename |-> <<>>,
     rel |-> FALSE, relname |-> <<>>, table |-> <<>>,
     columns |-> <<>>, aliases |-> FALSE]

Ref(name) == [name |-> name, caption |-> name]
Ws(view, cont, refs) == [view |-> view, cont |-> cont, refs |-> refs]

InitDsLists ==
    { <<>>,
      <<OldDs(S_E1, "textscan", S_a_csv, TRUE)>>,
      <<OldDs(<<>>, "textscan", S_a_csv, FALSE)>>,
      <<OldDs(S_E1, "federated", S_a_csv, TRUE)>>,
      <<OldDs(S_E1, "textscan", S_a_csv, TRUE),
        OldDs(S_E2, "textscan", S_a_csv, TRUE)>>,
      <<BareDs(S_E1), OldDs(S_E2, "textscan", S_B_CSV, TRUE)>> }

InitWsLists ==
    { <<>>,
      <<Ws(FALSE, FALSE, <<>>)>>,
      <<Ws(TRUE, FALSE, <<>>), Ws(TRUE, TRUE, <<Ref(S_E1)>>)>>,
      <<Ws(TRUE, TRUE, <<>>), Ws(FALSE, FALSE, <<>>)>> }

InitDocs ==
    { [top |-> IF ds = <<>> THEN t ELSE <<"preferences", "datasources", "worksheets">>,
       ds |-> ds, ws |-> ws] :
         ds \in InitDsLists, ws \in InitWsLists,
         t \in {<<"preferences", "worksheets">>, <<"worksheets">>} }

InitWorkbooks == {MissingFile, BadFile} \cup {XmlFile(d) : d \in InitDocs}

---------------------------------------------------------------------------
(* main() *)

\* faulty variant: the backup is taken before the workbook is parsed
main_steps_backup_first == <<"check", "backup", "parse", "add", "attach", "write">>

\* the order of the statements of main()
main_steps == <<"check", "parse", "backup", "add", "attach", "write">>

\* the statement that follows step s
StepAfter(s) ==
    LET i == IndexOf(main_steps, s)
    IN IF i < Len(main_steps) THEN main_steps[i + 1] ELSE "done"

\* faulty variant: only the workbook path is tested
only_workbook_checked(wb, csv) ==
    IF wb.kind = "missing" THEN "workbook not found" ELSE ""

\* the two os.path.exists tests: the message printed, "" if both exist
input_missing(wb, csv) ==
    IF wb.kind = "missing" THEN "workbook not found"
    ELSE IF ~csv.exists THEN "csv not found"
    ELSE ""

NoRet == [ds_name |-> <<>>, ds_caption |-> <<>>, attached |-> 0]
NoPrev == [ran |-> FALSE, ok |-> FALSE, args |-> NoArgs]
NoFn == <<>>

Ended == {"done", "exit1", "error"}

FnIdle == fin = NoFn /\ fout = NoFn /\ fpc = "off"

\* no run of main(): the state of the specifications of the single functions
MainOff ==
    /\ wbFile = MissingFile
    /\ backupFile = MissingFile
    /\ pc = "off"
    /\ args = NoArgs
    /\ tree = NoDoc
    /\ ret = NoRet
    /\ err = ""
    /\ exit_code = 0
    /\ uuid_ctr = 0
    /\ start = [wb |-> MissingFile, bk |-> MissingFile]
    /\ prev = NoPrev
    /\ orig = [wb |-> MissingFile, bk |-> MissingFile]

Init ==
    /\ wbFile \in InitWorkbooks
    /\ backupFile \in {MissingFile, StaleFile}
    /\ pc = "idle"
    /\ args = NoArgs
    /\ tree = NoDoc
    /\ ret = NoRet
    /\ err = ""
    /\ exit_code = 0
    /\ uuid_ctr = 0
    /\ start = [wb |-> wbFile, bk |-> backupFile]
    /\ prev = NoPrev
    /\ orig = [wb |-> wbFile, bk |-> backupFile]
    /\ FnIdle

\* the process starts: argparse has parsed the command line
Start(a) ==
    /\ pc = "idle"
    /\ uuid_ctr < MaxRuns
    /\ pc' = main_steps[1]
    /\ args' = a
    /\ tree' = NoDoc
    /\ ret' = NoRet
    /\ err' = ""
    /\ start' = [wb |-> wbFile, bk |-> backupFile]
    /\ uuid_ctr' = uuid_ctr + 1
    /\ UNCHANGED <<wbFile, backupFile, exit_code, prev, orig, fnVars>>

\* if not os.path.exists(...): print(...); sys.exit(1)
Check ==
    /\ pc = "check"
    /\ LET msg == input_missing(wbFile, csv_at(args.csv))
       IN IF msg # ""
          THEN pc' = "exit1" /\ err' = msg /\ exit_code' = 1
          ELSE pc' = StepAfter("check") /\ UNCHANGED <<err, exit_code>>
    /\ UNCHANGED <<wbFile, backupFile, args, tree, ret, uuid_ctr, start, prev,
                   orig, fnVars>>

\* tree = ET.parse(wb_path); root = tree.getroot()
Parse ==
    /\ pc = "parse"
    /\ LET p == et_parse(wbFile)
       IN IF p.ok
          THEN pc' = StepAfter("parse") /\ tree' = p.root
               /\ UNCHANGED <<err, exit_code>>
          ELSE pc' = "error" /\ err' = "parse" /\ exit_code' = 1
               /\ UNCHANGED tree
    /\ UNCHANGED <<wbFile, backupFile, args, ret, uuid_ctr, start, prev, orig,
                   fnVars>>

\* backup_file(wb_path)
Backup ==
    /\ pc = "backup"
    /\ backupFile' = backup_file(wbFile, backupFile)
    /\ pc' = StepAfter("backup")
    /\ UNCHANGED <<wbFile, args, tree, ret, err, exit_code, uuid_ctr, start,
                   prev, orig, fnVars>>

\* main() with the value add_textscan_datasource returned or raised
AddResult(r) ==
    /\ tree' = r.root
    /\ IF r.ok
       THEN /\ pc' = StepAfter("add")
            /\ ret' = [ret EXCEPT !.ds_name = r.ds_name,
                                  !.ds_caption = r.ds_caption]
            /\ UNCHANGED <<err, exit_code>>
       ELSE /\ pc' = "error" /\ err' = r.error /\ exit_code' = 1
            /\ UNCHANGED ret

\* ds_name, ds_caption = add_textscan_datasource(root, csv_path, ...)
Add ==
    /\ pc = "add"
    /\ AddResult(add_textscan_datasource(tree, args.csv, csv_at(args.csv),
                                         args.caption, args.windows_root,
                                         uuid_ctr))
    /\ UNCHANGED <<wbFile, backupFile, args, uuid_ctr, start, prev, orig, fnVars>>

AttachResult(r) == tree' = r.root /\ ret' = [ret EXCEPT !.attached = r.count]

\* attached = attach_datasource_to_all_worksheets(root, ds_name, ds_caption)
Attach ==
    /\ pc = "attach"
    /\ AttachResult(attach_datasource_to_all_worksheets(tree, ret.ds_name,
                                                        ret.ds_caption))
    /\ pc' = StepAfter("attach")
    /\ UNCHANGED <<wbFile, backupFile, args, err, exit_code, uuid_ctr, start,
                   prev, orig, fnVars>>

\* tree.write(wb_path, ...) and the three summary lines
Write ==
    /\ pc = "write"
    /\ wbFile' = et_write(tree)
    /\ pc' = StepAfter("write")
    /\ exit_code' = 0
    /\ UNCHANGED <<backupFile, args, tree, ret, err, uuid_ctr, start, prev,
                   orig, fnVars>>

\* the process has ended; the next command line may be typed
Exit ==
    /\ pc \in Ended
    /\ pc' = "idle"
    /\ prev' = [ran |-> TRUE, ok |-> pc = "done", args |-> args]
    /\ UNCHANGED <<wbFile, backupFile, args, tree, ret, err, exit_code,
                   uuid_ctr, start, orig, fnVars>>

Next ==
    \/ \E a \in ArgSet : Start(a)
    \/ Check
    \/ Parse
    \/ Backup
    \/ Add
    \/ Attach
    \/ Write
    \/ Exit

Spec == Init /\ [][Next]_vars

---------------------------------------------------------------------------
(* Specifications of the single functions: the input is drawn in the       *)
(* initial state and one step applies the function to it.                  *)

RECURSIVE SeqsUpTo(_, _)
\* the sequences over S of length at most n
SeqsUpTo(S, n) ==
    IF n = 0 THEN {<<>>}
    ELSE LET shorter == SeqsUpTo(S, n - 1)
         IN shorter \cup {Append(q, x) : q \in shorter, x \in S}

S_mnt == <<"m", "n", "t">>
S_Users == <<"U", "s", "e", "r", "s">>
PathSegs == {S_mnt, <<"c">>, S_Users, <<"x">>, <<".", ".">>}

PathInputs ==
    { [lead |-> lead, segs |-> segs, windows_root |-> root] :
        lead \in {<<>>, <<"/">>},
        segs \in SeqsUpTo(PathSegs, MaxSegs) \ {<<>>},
        root \in {<<>>, S_Root} }

InitPath == MainOff /\ fin \in PathInputs /\ fout = NoFn /\ fpc = "in"

\* to_windows_path(csv_path, windows_root)
ApplyPath ==
    /\ fpc = "in"
    /\ fout' = to_windows_path(fin.lead \o str_join(fin.segs, "/"),
                               fin.windows_root)
    /\ fpc' = "out"
    /\ UNCHANGED <<fin, mainVars>>

SpecPath == InitPath /\ [][ApplyPath]_vars

GuessValues ==
    { <<>>, <<" ">>, <<"1">>, <<"-", "1">>, <<"+", "1", "2">>, <<" ", "1", " ">>,
      <<"1", ".", "5">>, <<".", "5">>, <<"5", ".">>, <<".">>, <<"1", "e", "2">>,
      <<"1", ".", "5", "E", "-", "2">>, <<"1", "e">>, <<"e", "2">>, <<"a">>,
      <<"1", "a">>, <<"1", " ", "2">>, <<"-">>, <<"1", ".", "5", ".", "2">> }

InitGuess ==
    MainOff /\ fin \in SeqsUpTo(GuessValues, MaxVals) /\ fout = NoFn /\ fpc = "in"

\* the transposition and typing of sample_csv_columns for a one-column CSV
ApplyGuess ==
    /\ fpc = "in"
    /\ fout' = transpose_samples(<< <<"h">> >>,
                                 [k \in 1..Len(fin) |-> <<fin[k]>>]).types[1]
    /\ fpc' = "out"
    /\ UNCHANGED <<fin, mainVars>>

SpecGuess == InitGuess /\ [][ApplyGuess]_vars

CsvHeaders == SeqsUpTo({<<>>, <<"h">>}, MaxHdr)
CsvRows == SeqsUpTo(SeqsUpTo({<<>>, <<" ", "1">>}, MaxWidth), MaxRows)

CsvInputs ==
    { [csv |-> [exists |-> TRUE, openable |-> FALSE, lines |-> <<>>, errAt |-> 0],
       limit |-> max_rows],
      [csv |-> [exists |-> TRUE, openable |-> TRUE, lines |-> <<>>, errAt |-> 0],
       limit |-> max_rows] }
    \cup
    { [csv |-> [exists |-> TRUE, openable |-> TRUE, lines |-> <<h>> \o rows,
                errAt |-> c[1]],
       limit |-> c[2]] :
        h \in CsvHeaders, rows \in CsvRows,
        c \in {<<0, max_rows>>, <<2, max_rows>>, <<0, 1>>} }

InitCsv == MainOff /\ fin \in CsvInputs /\ fout = NoFn /\ fpc = "in"

\* sample_csv_columns(csv_path, max_rows)
ApplySample ==
    /\ fpc = "in"
    /\ fout' = sample_csv_columns(fin.csv, fin.limit)
    /\ fpc' = "out"
    /\ UNCHANGED <<fin, mainVars>>

SpecCsv == InitCsv /\ [][ApplySample]_vars

LinkRefs == SeqsUpTo({Ref(S_E1), Ref(S_E2)}, MaxRefs)

LinkWorksheets ==
    {Ws(FALSE, FALSE, <<>>), Ws(TRUE, FALSE, <<>>)}
        \cup {Ws(TRUE, TRUE, refs) : refs \in LinkRefs}

LinkInputs ==
    { [root |-> [top |-> <<"datasources", "worksheets">>, ds |-> <<>>, ws |-> ws],
       ds_name |-> n, ds_caption |-> S_Cap] :
        ws \in SeqsUpTo(LinkWorksheets, MaxWs), n \in {S_E1, S_E2} }

InitLink == MainOff /\ fin \in LinkInputs /\ fout = NoFn /\ fpc = "in"

\* attach_datasource_to_all_worksheets(root, ds_name, ds_caption)
ApplyAttach ==
    /\ fpc = "in"
    /\ fout' = attach_datasource_to_all_worksheets(fin.root, fin.ds_name,
                                                   fin.ds_caption)
    /\ fpc' = "out"
    /\ UNCHANGED <<fin, mainVars>>

SpecLink == InitLink /\ [][ApplyAttach]_vars

---------------------------------------------------------------------------
(* Properties *)

\* directory and filename a command line stores in the workbook
StoredPath(a) ==
    split_dir_filename_windows(to_windows_path(a.csv, a.windows_root))

\* the textscan data sources of a document whose connection names file f
FileSources(doc, f) ==
    {i \in 1..Len(doc.ds) :
        doc.ds[i].conn /\ doc.ds[i].class = "textscan" /\ doc.ds[i].filename = f}

MinOf(S) == CHOOSE i \in S : \A j \in S : i <= j

\* the references of a worksheet that carry name n
RefsNamed(w, n) == {j \in 1..Len(w.refs) : w.refs[j].name = n}

\* the run repeats the previous run, which succeeded, and has succeeded too
SecondRunDone == pc = "done" /\ prev.ran /\ prev.ok /\ prev.args = args

\* C1 as stated: after a successful run, a second run with the same
\* arguments adds no worksheet link and no data source, and exactly one
\* textscan data source has the CSV's filename.
C1_SecondRunCountIsOne ==
    SecondRunDone =>
        /\ ret.attached = 0
        /\ Len(wbFile.doc.ds) = Len(start.wb.doc.ds)
        /\ Cardinality(FileSources(wbFile.doc, StoredPath(args)[2])) = 1

\* C1 amended: after a successful run, a second run with the same arguments
\* adds no worksheet link and no data source; the number of textscan data
\* sources with the CSV's filename is what the first run left, which is 1
\* when the workbook held at most one of them before the first run.
C1_SecondRunAddsNothing ==
    SecondRunDone =>
        LET f == StoredPath(args)[2] IN
        /\ ret.attached = 0
        /\ Len(wbFile.doc.ds) = Len(start.wb.doc.ds)
        /\ Cardinality(FileSources(wbFile.doc, f))
               = Cardinality(FileSources(start.wb.doc, f))
        /\ Cardinality(FileSources(orig.wb.doc, f)) <= 1
               => Cardinality(FileSources(wbFile.doc, f)) = 1

C1_Witness ==
    /\ SecondRunDone
    /\ ret.attached = 0
    /\ Cardinality(FileSources(wbFile.doc, StoredPath(args)[2])) = 1
    /\ \E i \in 1..Len(wbFile.doc.ws) :
          wbFile.doc.ws[i].view /\ RefsNamed(wbFile.doc.ws[i], ret.ds_name) # {}

\* C2: the backup is written only when it does not exist; written by the
\* first run, it holds the workbook's bytes from before any mutation was
\* written; no later run changes it.
C2_BackupLaw ==
    /\ start.bk # MissingFile => backupFile = start.bk
    /\ orig.bk = MissingFile => backupFile \in {MissingFile, orig.wb}
    /\ (orig.bk = MissingFile /\ wbFile # orig.wb) => backupFile = orig.wb
    /\ pc = "done" => backupFile # MissingFile

C2_Witness ==
    /\ SecondRunDone
    /\ orig.bk = MissingFile
    /\ backupFile = orig.wb
    /\ wbFile # orig.wb
    /\ start.wb # orig.wb

\* no encoding yields a header row: open() fails, or the file has no first
\* row, or its first row has no cell
NoReadableHeader(csv) ==
    ~csv.openable \/ csv.lines = <<>> \/ Head(csv.lines) = <<>>

\* a run on a well-formed workbook with a CSV that exists and has no header
UnreadableCsvRun ==
    /\ pc # "idle"
    /\ start.wb.kind = "xml"
    /\ csv_at(args.csv).exists
    /\ NoReadableHeader(csv_at(args.csv))

\* C3 as stated: a run whose CSV has no readable header row ends with the
\* cannot-read-headers error, and no file has been created or changed.
C3_AbortTouchesNoFile ==
    (UnreadableCsvRun /\ pc \in Ended) =>
        /\ pc = "error" /\ err = "headers"
        /\ wbFile = start.wb
        /\ backupFile = start.bk

\* C3 amended: a run whose CSV has no readable header row and whose filename
\* is not yet the filename of a textscan data source of the workbook ends
\* with the cannot-read-headers error before the workbook is written; the
\* backup may have been created by then (a copy of the unchanged workbook).
C3_AbortBeforeWrite ==
    (UnreadableCsvRun /\ FileSources(start.wb.doc, StoredPath(args)[2]) = {}) =>
        /\ pc \in Ended => (pc = "error" /\ err = "headers")
        /\ wbFile = start.wb
        /\ backupFile = start.bk
             \/ (start.bk = MissingFile /\ backupFile = start.wb)

C3_Witness ==
    /\ UnreadableCsvRun
    /\ FileSources(start.wb.doc, StoredPath(args)[2]) = {}
    /\ pc = "error" /\ err = "headers"
    /\ backupFile # start.bk

\* the workbook or the CSV did not exist when the run started
MissingInputRun ==
    pc # "idle" /\ (start.wb.kind = "missing" \/ ~csv_at(args.csv).exists)

\* C4: a run started with the workbook or the CSV missing goes no further
\* than the existence checks: it exits with status 1 and a message, the
\* workbook is neither parsed nor written and no backup is created.
C4_MissingInputAbort ==
    MissingInputRun =>
        /\ pc \in {"check", "exit1"}
        /\ pc = "exit1" => (exit_code = 1 /\ err # "")
        /\ tree = NoDoc
        /\ wbFile = start.wb
        /\ backupFile = start.bk

C4_Witness ==
    /\ MissingInputRun
    /\ pc = "exit1"
    /\ start.wb.kind = "xml"
    /\ start.bk = MissingFile

\* C9: from a workbook in which no two textscan data sources share a
\* filename, no run makes two of them share one; a run whose CSV filename is
\* that of an existing textscan data source appends nothing, updates that
\* record's directory, filename, relation name, table label and caption and
\* returns its name, a generated one only when it had none.
NoSharedFile(doc) ==
    \A i, j \in 1..Len(doc.ds) :
        (i < j /\ doc.ds[i].conn /\ doc.ds[j].conn
         /\ doc.ds[i].class = "textscan" /\ doc.ds[j].class = "textscan")
            => doc.ds[i].filename # doc.ds[j].filename

\* the data source was added or updated and the tree is not yet written
JustAdded == pc = "attach" /\ start.wb.kind = "xml"

C9_UpdateInsteadOfDuplicate ==
    /\ (orig.wb.kind = "xml" /\ NoSharedFile(orig.wb.doc)) =>
          /\ NoSharedFile(wbFile.doc)
          /\ pc \in {"attach", "write", "done"} => NoSharedFile(tree)
    /\ (JustAdded /\ FileSources(start.wb.doc, StoredPath(args)[2]) # {}) =>
          LET old == start.wb.doc.ds
              f == StoredPath(args)[2]
              m == MinOf(FileSources(start.wb.doc, f))
              cap == IF args.caption # <<>> THEN args.caption ELSE f
          IN /\ Len(tree.ds) = Len(old)
             /\ \A i \in 1..Len(old) : i # m => tree.ds[i] = old[i]
             /\ tree.ds[m].directory = StoredPath(args)[1]
             /\ tree.ds[m].filename = f
             /\ old[m].rel => /\ tree.ds[m].relname = f
                              /\ tree.ds[m].table = make_table_attr(f)
             /\ tree.ds[m].caption = cap
             /\ ret.ds_name = tree.ds[m].name
             /\ ret.ds_name = IF old[m].name # <<>> THEN old[m].name
                              ELSE uuid_name(uuid_ctr)

C9_Witness ==
    /\ JustAdded
    /\ NoSharedFile(orig.wb.doc)
    /\ FileSources(start.wb.doc, StoredPath(args)[2]) # {}
    /\ LET m == MinOf(FileSources(start.wb.doc, StoredPath(args)[2]))
       IN /\ start.wb.doc.ds[m].directory # tree.ds[m].directory
          /\ start.wb.doc.ds[m].caption # tree.ds[m].caption
          /\ start.wb.doc.ds[m].rel
          /\ start.wb.doc.ds[m].name # <<>>

\* the workbook exists but is not well-formed XML, and the CSV exists
MalformedWorkbookRun ==
    pc # "idle" /\ start.wb.kind = "bad" /\ csv_at(args.csv).exists

\* C10: a run on a workbook that is not well-formed XML aborts at the parse
\* step, before the backup and write steps: no backup is created and the
\* workbook's bytes are unchanged.
C10_MalformedAbortsAtParse ==
    MalformedWorkbookRun =>
        /\ pc \in {"check", "parse", "error"}
        /\ pc = "error" => err = "parse"
        /\ wbFile = start.wb
        /\ backupFile = start.bk

C10_Witness ==
    /\ MalformedWorkbookRun
    /\ pc = "error" /\ err = "parse"
    /\ backupFile = MissingFile

\* the input is an absolute path /mnt/<letter>/<segment>/...
MountedDrive(i) ==
    /\ i.lead = <<"/">>
    /\ Len(i.segs) >= 3
    /\ i.segs[1] = S_mnt
    /\ Len(i.segs[2]) = 1
    /\ \A k \in 1..Len(i.segs) : i.segs[k] # <<".", ".">>

\* C5: a path /mnt/<letter>/<rest> becomes <LETTER>:\<rest> with the
\* segments of <rest> joined by backslashes.
C5_MountedDriveBackslashes ==
    (fpc = "out" /\ MountedDrive(fin)) =>
        fout = str_upper(fin.segs[2]) \o <<":", "\\">>
                   \o str_join(SubSeq(fin.segs, 3, Len(fin.segs)), "\\")

\* an optional sign and then digits only
IntegerText(s) ==
    \E k \in 0..1 :
        /\ Len(s) > k
        /\ k = 1 => s[1] \in {"+", "-"}
        /\ \A j \in (k + 1)..Len(s) : s[j] \in Digits

\* digits with at most one decimal point and at least one digit
MantissaText(m) ==
    /\ \A j \in 1..Len(m) : m[j] \in Digits \cup {"."}
    /\ Cardinality({j \in 1..Len(m) : m[j] = "."}) <= 1
    /\ \E j \in 1..Len(m) : m[j] \in Digits

\* an optional sign, a mantissa and an optional exponent
NumberText(s) ==
    \E k \in 0..1 : \E e \in k..Len(s) :
        /\ k = 1 => (Len(s) >= 1 /\ s[1] \in {"+", "-"})
        /\ MantissaText(SubSeq(s, k + 1, e))
        /\ e = Len(s)
             \/ (s[e + 1] \in {"e", "E"} /\ IntegerText(SubSeq(s, e + 2, Len(s))))

\* v without its leading and trailing spaces
Trimmed(v) ==
    LET marks == {j \in 1..Len(v) : v[j] # " "}
    IN IF marks = {} THEN <<>>
       ELSE SubSeq(v, MinOf(marks), CHOOSE b \in marks : \A j \in marks : j <= b)

\* the values of the column that are not blank, stripped
ColumnValues(col) == {Trimmed(col[k]) : k \in 1..Len(col)} \ {<<>>}

\* C6: the type of a column depends on its stripped non-blank values only:
\* integer if all are integers, real if all are numbers but not all
\* integers, string if one is not a number or none is left.
C6_TypeInference ==
    fpc = "out" =>
        fout = IF ColumnValues(fin) = {} THEN "string"
               ELSE IF \A v \in ColumnValues(fin) : IntegerText(v) THEN "integer"
               ELSE IF \A v \in ColumnValues(fin) : NumberText(v) THEN "real"
               ELSE "string"

C6_Witness ==
    /\ fpc = "out"
    /\ fout = "real"
    /\ \E k \in 1..Len(fin) : IntegerText(Trimmed(fin[k]))
    /\ \E k \in 1..Len(fin) : fin[k] # Trimmed(fin[k])

\* the CSV has a header row with at least one cell
ReadableHeader(csv) ==
    csv.openable /\ csv.lines # <<>> /\ Head(csv.lines) # <<>>

\* the cell a raw row gives column i: its own, or the empty string
CellOf(raw, i) == IF i <= Len(raw) THEN raw[i] ELSE <<>>

\* C7: for a CSV with a readable header row there are as many types as
\* headers, and every sampled row gives each column exactly one value,
\* short rows padded with empty strings and long rows truncated.
C7_PadTruncate ==
    (fpc = "out" /\ ReadableHeader(fin.csv)) =>
        LET n == Len(Head(fin.csv.lines))
            raw == Tail(fin.csv.lines)
        IN /\ fout.ok
           /\ Len(fout.headers) = n
           /\ Len(fout.types) = n
           /\ Len(fout.col_samples) = n
           /\ \A k \in 1..Len(fout.samples) : Len(fout.samples[k]) = n
           /\ \A i \in 1..n : Len(fout.col_samples[i]) = Len(fout.samples)
           /\ fin.csv.errAt = 0 =>
                /\ Len(fout.samples)
                      = IF Len(raw) < fin.limit THEN Len(raw) ELSE fin.limit
                /\ \A k \in 1..Len(fout.samples) : \A i \in 1..n :
                      fout.samples[k][i] = CellOf(raw[k], i)

C7_Witness ==
    /\ fpc = "out"
    /\ ReadableHeader(fin.csv)
    /\ fin.csv.errAt = 0
    /\ Len(fout.samples) = 2
    /\ \E k \in 1..2 : Len(fin.csv.lines[k + 1]) > Len(fout.headers)
    /\ \E k \in 1..2 : Len(fin.csv.lines[k + 1]) < Len(fout.headers)

\* no worksheet view holds two references with the data source's name
AtMostOneRef(i) ==
    \A k \in 1..Len(i.root.ws) :
        Cardinality(RefsNamed(i.root.ws[k], i.ds_name)) <= 1

\* worksheet w has a view without a reference named n
Linkable(w, n) == w.view /\ RefsNamed(w, n) = {}

\* C8: if no view holds the name twice, then after the call every worksheet
\* with a view holds it exactly once, the count returned is the number of
\* worksheets that had a view without it, and the worksheets without a view
\* or already linked are unchanged.
C8_WorksheetLinker ==
    (fpc = "out" /\ AtMostOneRef(fin)) =>
        LET before == fin.root.ws
            after == fout.root.ws
        IN /\ Len(after) = Len(before)
           /\ \A k \in 1..Len(before) :
                 /\ before[k].view =>
                       Cardinality(RefsNamed(after[k], fin.ds_name)) = 1
                 /\ ~Linkable(before[k], fin.ds_name) => after[k] = before[k]
                 /\ Linkable(before[k], fin.ds_name) =>
                       /\ after[k].view /\ after[k].cont
                       /\ after[k].refs =
                             Append(before[k].refs,
                                    [name |-> fin.ds_name,
                                     caption |-> fin.ds_caption])
           /\ fout.count
                 = Cardinality({k \in 1..Len(before) :
                                   Linkable(before[k], fin.ds_name)})

C8_Witness ==
    /\ fpc = "out"
    /\ AtMostOneRef(fin)
    /\ fout.count = 1
    /\ \E k \in 1..Len(fin.root.ws) :
          fin.root.ws[k].view /\ RefsNamed(fin.root.ws[k], fin.ds_name) # {}

=============================================================================
